---- MODULE Spec2Model ----
(***************************************************************************)
(* Token lifecycle of the Breadcrumbs web client: the OAuth module         *)
(* (fetchToken / getToken), the redirect page script (login / redirect)    *)
(* and the token-consuming callers of the app page.  Every `await` of the  *)
(* JavaScript source is a suspension point between two atomic actions.     *)
(***************************************************************************)
EXTENDS Integers, Sequences, FiniteSets, TLC

\* ------------------------------------------------------------------ bounds
MaxTimeMs    == 2500   \* the clock stops advancing here
MaxExpiresIn == 2      \* largest expires_in the token endpoint declares

\* ------------------------------------------------------- program constants
MsPerSec     == 1000
home         == "https://joshcanton6.github.io/breadcrumbs"
redirect_uri == "https://joshcanton6.github.io/breadcrumbs/redirect"
client_id    == "70d3f1361abf4e1ab9e9e64089fabc36"
appURL       == home \o "/app"
authorizeURL ==
    "https://accounts.spotify.com/authorize?client_id=" \o client_id
        \o "&response_type=code&redirect_uri="
        \o "https%3A%2F%2Fjoshcanton6.github.io%2Fbreadcrumbs%2Fredirect"
        \o "&scope=user-top-read"

\* ------------------------------------------------------------- processes
Callers    == {"c1", "c2"}          \* invocations of getToken (app page)
Redirector == "redirect"            \* invocation of redirect (redirect page)
Procs      == Callers \cup {Redirector}

\* ------------------------------------------------------ JavaScript values
Str(s)    == [t |-> "string",    s |-> s,  n |-> 0]
Num(n)    == [t |-> "number",    s |-> "", n |-> n]
Null      == [t |-> "null",      s |-> "", n |-> 0]
Undefined == [t |-> "undefined", s |-> "", n |-> 0]
NaN       == [t |-> "nan",       s |-> "", n |-> 0]

Digits == <<"0", "1", "2", "3", "4", "5", "6", "7", "8", "9">>

RECURSIVE NumberToString(_)
NumberToString(n) ==
    IF n < 10 THEN Digits[n + 1]
    ELSE NumberToString(n \div 10) \o Digits[(n % 10) + 1]

\* String(v): what setItem, URLSearchParams and template literals store
ToStr(v) ==
    CASE v.t = "string"    -> v.s
      [] v.t = "number"    -> NumberToString(v.n)
      [] v.t = "null"      -> "null"
      [] v.t = "undefined" -> "undefined"
      [] v.t = "nan"       -> "NaN"

MaxNum == (MaxTimeMs \div MsPerSec) + MaxExpiresIn + 1

\* Number(v): the coercion the subtraction in getToken applies
ToNumber(v) ==
    CASE v.t = "number"    -> v
      [] v.t = "null"      -> Num(0)
      [] v.t = "undefined" -> NaN
      [] v.t = "nan"       -> NaN
      [] v.t = "string"    ->
            IF v.s = "" THEN Num(0)
            ELSE IF \E n \in 0..MaxNum : NumberToString(n) = v.s
                 THEN Num(CHOOSE n \in 0..MaxNum : NumberToString(n) = v.s)
                 ELSE NaN

\* a - b
Minus(a, b) ==
    LET x == ToNumber(a)
        y == ToNumber(b)
    IN  IF x.t = "nan" \/ y.t = "nan" THEN NaN ELSE Num(x.n - y.n)

\* a + b for a number a and a number or missing b
Plus(a, b) ==
    LET y == ToNumber(b)
    IN  IF a.t = "nan" \/ y.t = "nan" THEN NaN ELSE Num(a.n + y.n)

\* a <= 0
LeqZero(a) == a.t = "number" /\ a.n <= 0

\* Math.floor(Date.now() / 1000)
FloorSec(ms) == ms \div MsPerSec

\* ----------------------------------------------------------- localStorage
getItem(st, k) == IF k \in DOMAIN st THEN Str(st[k]) ELSE Null

setItem(st, k, v) ==
    [x \in (DOMAIN st) \cup {k} |-> IF x = k THEN ToStr(v) ELSE st[x]]

EmptyStorage == [k \in {} |-> ""]

\* token[k] of a parsed JSON body
Prop(body, k) == IF k \in DOMAIN body THEN body[k] ELSE Undefined

\* --------------------------------------------------------- token endpoint
Lifetimes == 1..MaxExpiresIn
Grants    == {1, 2}                 \* the k-th grant issues "at<k>", "rt<k>"

AccessTokenOf(k)  == "at" \o NumberToString(k)
RefreshTokenOf(k) == "rt" \o NumberToString(k)

TokenBody(fs, k, ei) ==
    [f \in fs |-> CASE f = "access_token"  -> Str(AccessTokenOf(k))
                    [] f = "refresh_token" -> Str(RefreshTokenOf(k))
                    [] f = "expires_in"    -> Num(ei)]

ErrorBody == [f \in {"error", "error_description"} |->
                 IF f = "error" THEN Str("invalid_grant")
                 ELSE Str("Invalid refresh token")]

AllFields == {"access_token", "refresh_token", "expires_in"}

NoOutcome == [kind |-> "none", status |-> 0, body |-> EmptyStorage]

\* what the token endpoint may answer: a grant, a grant without a new
\* refresh token, a 200 body lacking a field, an error status, no answer,
\* an answer that is not JSON
Outcomes ==
    { [kind |-> "network",    status |-> 0,   body |-> EmptyStorage],
      [kind |-> "unparsable", status |-> 200, body |-> EmptyStorage],
      [kind |-> "json",       status |-> 400, body |-> ErrorBody],
      [kind |-> "json", status |-> 200,
       body |-> TokenBody({"access_token", "refresh_token"}, 1, 1)],
      [kind |-> "json", status |-> 200,
       body |-> TokenBody({"refresh_token", "expires_in"}, 1, 1)] }
    \cup
    { [kind |-> "json", status |-> 200, body |-> TokenBody(fs, k, ei)] :
        fs \in {AllFields, {"access_token", "expires_in"}},
        k \in Grants, ei \in Lifetimes }

\* the answer is a grant: success status, access_token and expires_in present
IsGrant(o) ==
    /\ o.kind = "json"
    /\ o.status = 200
    /\ {"access_token", "expires_in"} \subseteq DOMAIN o.body

\* ------------------------------------------------------------- page URLs
Codes  == {"abc123", "xyz"}
Errors == {"access_denied"}

NoParams == [k \in {} |-> ""]

\* window.location.search of the redirect page, as URLSearchParams
ParamSets ==
    { NoParams }
    \cup { [k \in {"code"} |-> c] : c \in Codes }
    \cup { [k \in {"error"} |-> e] : e \in Errors }
    \cup { [k \in {"code", "error"} |->
               IF k = "code" THEN c ELSE e] : c \in Codes, e \in Errors }

has(ps, k) == k \in DOMAIN ps
get(ps, k) == IF k \in DOMAIN ps THEN Str(ps[k]) ELSE Null

VARIABLES
    nowMs,        \* Date.now()
    storage,      \* localStorage
    href,         \* window.location.href of the tab
    params,       \* URLSearchParams of the redirect page
    message,      \* innerHTML of #redirect-message
    pc,           \* position of each invocation on the current page
    sent,         \* token-endpoint requests each invocation has issued
    resp,         \* what the token endpoint answered to each invocation
    result,       \* value getToken returned
    err,          \* exception an invocation was rejected with
    checkedAt,    \* second of the expiry check of a getToken call in progress
    lastStore,    \* invocation whose fetchToken wrote localStorage last
    lastResp      \* the answer that fetchToken wrote last

vars == <<nowMs, storage, href, params, message, pc, sent, resp, result, err,
          checkedAt, lastStore, lastResp>>

Quiescent == \A p \in Procs : pc[p] \notin {"fetch", "stored"}

\* ---------------------------------------------------------------- auth.js

\* fetchToken called without its code argument (code = null)
RequestBodyNoCode(grant_type, code, st) ==
    IF grant_type = "authorization_code"
    THEN << <<"grant_type", grant_type>>,
            <<"code", ToStr(Null)>>,
            <<"redirect_uri", redirect_uri>> >>
    ELSE << <<"grant_type", grant_type>>,
            <<"refresh_token", ToStr(getItem(st, "refresh_token"))>>,
            <<"client_id", client_id>> >>

\* body of the token-endpoint request
RequestBody(grant_type, code, st) ==
    IF grant_type = "authorization_code"
    THEN << <<"grant_type", grant_type>>,
            <<"code", ToStr(code)>>,
            <<"redirect_uri", redirect_uri>> >>
    ELSE << <<"grant_type", grant_type>>,
            <<"refresh_token", ToStr(getItem(st, "refresh_token"))>>,
            <<"client_id", client_id>> >>

\* the refresh token stored under the access_token key and vice versa
StoreTokenSwapped(st, token, ms) ==
    LET s1 == setItem(st, "access_token", Prop(token, "refresh_token"))
        s2 == setItem(s1, "refresh_token", Prop(token, "access_token"))
    IN  setItem(s2, "expires_at",
                Plus(Num(FloorSec(ms)), Prop(token, "expires_in")))

\* only the access token is written; the other two entries keep their values
StoreTokenPartial(st, token, ms) ==
    setItem(st, "access_token", Prop(token, "access_token"))

\* Date.now() added to expires_in without the division by 1000
StoreTokenMillis(st, token, ms) ==
    LET s1 == setItem(st, "access_token", Prop(token, "access_token"))
        s2 == setItem(s1, "refresh_token", Prop(token, "refresh_token"))
    IN  setItem(s2, "expires_at", Plus(Num(ms), Prop(token, "expires_in")))

\* a record that has not expired yet is not overwritten: the first write wins
StoreTokenFirstWins(st, token, ms) ==
    LET e  == ToNumber(getItem(st, "expires_at"))
        s1 == setItem(st, "access_token", Prop(token, "access_token"))
        s2 == setItem(s1, "refresh_token", Prop(token, "refresh_token"))
    IN  IF e.t = "number" /\ e.n > FloorSec(ms)
        THEN st
        ELSE setItem(s2, "expires_at",
                     Plus(Num(FloorSec(ms)), Prop(token, "expires_in")))

\* the three setItem calls that follow `await response.json()`
StoreToken(st, token, ms) ==
    LET s1 == setItem(st, "access_token", Prop(token, "access_token"))
        s2 == setItem(s1, "refresh_token", Prop(token, "refresh_token"))
    IN  setItem(s2, "expires_at",
                Plus(Num(FloorSec(ms)), Prop(token, "expires_in")))

\* the token is refreshed one second before it expires
ExpiredEarly(st, ms) ==
    LeqZero(Minus(Minus(getItem(st, "expires_at"), Num(FloorSec(ms))), Num(1)))

\* a strict comparison: a token is still handed out in its expiry second
ExpiredStrict(st, ms) ==
    LET d == Minus(getItem(st, "expires_at"), Num(FloorSec(ms)))
    IN  d.t = "number" /\ d.n < 0

\* the condition of getToken
Expired(st, ms) ==
    LeqZero(Minus(getItem(st, "expires_at"), Num(FloorSec(ms))))

\* a call that finds another call's refresh in flight hands out the stored
\* token instead of starting a refresh of its own
GetTokenGuarded(c) ==
    /\ href = appURL
    /\ pc[c] \in {"idle", "done", "rejected"}
    /\ resp' = [resp EXCEPT ![c] = NoOutcome]
    /\ err' = [err EXCEPT ![c] = ""]
    /\ IF Expired(storage, nowMs) /\ \A d \in Callers \ {c} : pc[d] # "fetch"
       THEN /\ sent' = [sent EXCEPT ![c] =
                          <<RequestBody("refresh_token", Null, storage)>>]
            /\ pc' = [pc EXCEPT ![c] = "fetch"]
            /\ result' = [result EXCEPT ![c] = Undefined]
            /\ checkedAt' = [checkedAt EXCEPT ![c] = FloorSec(nowMs)]
       ELSE /\ sent' = [sent EXCEPT ![c] = <<>>]
            /\ result' = [result EXCEPT ![c] = getItem(storage, "access_token")]
            /\ pc' = [pc EXCEPT ![c] = "done"]
            /\ checkedAt' = [checkedAt EXCEPT ![c] = 0]
    /\ UNCHANGED <<nowMs, storage, href, params, message, lastStore, lastResp>>

\* fetchToken is started but not awaited: the stored token is handed out
\* while the refresh is still in flight
GetTokenNoAwait(c) ==
    /\ href = appURL
    /\ pc[c] \in {"idle", "done", "rejected"}
    /\ resp' = [resp EXCEPT ![c] = NoOutcome]
    /\ err' = [err EXCEPT ![c] = ""]
    /\ result' = [result EXCEPT ![c] = getItem(storage, "access_token")]
    /\ IF Expired(storage, nowMs)
       THEN /\ sent' = [sent EXCEPT ![c] =
                          <<RequestBody("refresh_token", Null, storage)>>]
            /\ pc' = [pc EXCEPT ![c] = "fetch"]
            /\ checkedAt' = [checkedAt EXCEPT ![c] = FloorSec(nowMs)]
       ELSE /\ sent' = [sent EXCEPT ![c] = <<>>]
            /\ pc' = [pc EXCEPT ![c] = "done"]
            /\ checkedAt' = [checkedAt EXCEPT ![c] = 0]
    /\ UNCHANGED <<nowMs, storage, href, params, message, lastStore, lastResp>>

\* a consumer of the app page calls getToken, which runs up to its first
\* suspension point or to its return
GetToken(c) ==
    /\ href = appURL
    /\ pc[c] \in {"idle", "done", "rejected"}
    /\ resp' = [resp EXCEPT ![c] = NoOutcome]
    /\ err' = [err EXCEPT ![c] = ""]
    /\ IF Expired(storage, nowMs)
       THEN /\ sent' = [sent EXCEPT ![c] =
                          <<RequestBody("refresh_token", Null, storage)>>]
            /\ pc' = [pc EXCEPT ![c] = "fetch"]
            /\ result' = [result EXCEPT ![c] = Undefined]
            /\ checkedAt' = [checkedAt EXCEPT ![c] = FloorSec(nowMs)]
       ELSE /\ sent' = [sent EXCEPT ![c] = <<>>]
            /\ result' = [result EXCEPT ![c] = getItem(storage, "access_token")]
            /\ pc' = [pc EXCEPT ![c] = "done"]
            /\ checkedAt' = [checkedAt EXCEPT ![c] = 0]
    /\ UNCHANGED <<nowMs, storage, href, params, message, lastStore, lastResp>>

\* a body that cannot be parsed is taken for an empty object
ThrownOnlyNetwork(o) ==
    IF o.kind = "network" THEN "TypeError" ELSE ""

\* a request that got no answer is taken for an answer with an empty body
ThrownOnlyParse(o) ==
    IF o.kind = "unparsable" THEN "SyntaxError" ELSE ""

\* the exception `await fetch(...)` or `await response.json()` throws, "" if none
Thrown(o) ==
    CASE o.kind = "network"    -> "TypeError"
      [] o.kind = "unparsable" -> "SyntaxError"
      [] OTHER                 -> ""

\* a request that fails is issued again instead of rejecting the call
FetchTokenRetrying(p, o) ==
    /\ pc[p] = "fetch"
    /\ resp' = [resp EXCEPT ![p] = o]
    /\ IF Thrown(o) # ""
       THEN /\ err' = [err EXCEPT ![p] = Thrown(o)]
            /\ UNCHANGED <<pc, storage, lastStore, lastResp>>
       ELSE /\ storage' = StoreToken(storage, o.body, nowMs)
            /\ lastStore' = p
            /\ lastResp' = o
            /\ pc' = [pc EXCEPT ![p] = "stored"]
            /\ UNCHANGED err
    /\ UNCHANGED <<nowMs, href, params, message, sent, result, checkedAt>>

\* fetchToken resumed by the answer of the token endpoint
FetchTokenResume(p, o) ==
    /\ pc[p] = "fetch"
    /\ resp' = [resp EXCEPT ![p] = o]
    /\ IF Thrown(o) # ""
       THEN /\ pc' = [pc EXCEPT ![p] = "rejected"]
            /\ err' = [err EXCEPT ![p] = Thrown(o)]
            /\ UNCHANGED <<storage, lastStore, lastResp>>
       ELSE /\ storage' = StoreToken(storage, o.body, nowMs)
            /\ lastStore' = p
            /\ lastResp' = o
            /\ pc' = [pc EXCEPT ![p] = "stored"]
            /\ UNCHANGED err
    /\ UNCHANGED <<nowMs, href, params, message, sent, result, checkedAt>>

\* getToken after `await fetchToken(...)`
GetTokenReturn(c) ==
    /\ c \in Callers
    /\ pc[c] = "stored"
    /\ result' = [result EXCEPT ![c] = getItem(storage, "access_token")]
    /\ pc' = [pc EXCEPT ![c] = "done"]
    /\ checkedAt' = [checkedAt EXCEPT ![c] = 0]
    /\ UNCHANGED <<nowMs, storage, href, params, message, sent, resp, err,
                   lastStore, lastResp>>

\* --------------------------------------------------------------- index.js

\* the error parameter is never looked at
RedirectBranchNoError(ps) ==
    IF has(ps, "code") THEN "code" ELSE "neither"

\* a plain else in place of the else-if
RedirectBranchElseError(ps) ==
    IF has(ps, "code") THEN "code" ELSE "error"

\* the error parameter is tested before the code parameter
RedirectBranchErrorFirst(ps) ==
    IF has(ps, "error") THEN "error"
    ELSE IF has(ps, "code") THEN "code"
    ELSE "neither"

\* which branch of redirect the URL parameters select
RedirectBranch(ps) ==
    IF has(ps, "code") THEN "code"
    ELSE IF has(ps, "error") THEN "error"
    ELSE "neither"

\* every invocation of a page that is unloaded is gone
PageLoad ==
    /\ pc' = [p \in Procs |-> "idle"]
    /\ sent' = [p \in Procs |-> <<>>]
    /\ resp' = [p \in Procs |-> NoOutcome]
    /\ result' = [p \in Procs |-> Undefined]
    /\ err' = [p \in Procs |-> ""]
    /\ checkedAt' = [p \in Procs |-> 0]

\* login wipes localStorage before it leaves for the provider
LoginClearing ==
    /\ href = home
    /\ href' = authorizeURL
    /\ params' = NoParams
    /\ message' = ""
    /\ storage' = EmptyStorage
    /\ PageLoad
    /\ UNCHANGED <<nowMs, lastStore, lastResp>>

\* the login button of the landing page; the navigation unloads the page
Login ==
    /\ href = home
    /\ href' = authorizeURL
    /\ params' = NoParams
    /\ message' = ""
    /\ PageLoad
    /\ UNCHANGED <<nowMs, storage, lastStore, lastResp>>

\* a denied login removes the stored record
RedirectForgetting(ps) ==
    /\ Quiescent
    /\ params' = ps
    /\ resp' = [p \in Procs |-> NoOutcome]
    /\ result' = [p \in Procs |-> Undefined]
    /\ err' = [p \in Procs |-> ""]
    /\ CASE RedirectBranch(ps) = "code" ->
              /\ sent' = [p \in Procs |->
                            IF p = Redirector
                            THEN <<RequestBody("authorization_code",
                                               get(ps, "code"), storage)>>
                            ELSE <<>>]
              /\ pc' = [p \in Procs |->
                          IF p = Redirector THEN "fetch" ELSE "idle"]
              /\ href' = redirect_uri
              /\ message' = ""
              /\ storage' = storage
         [] RedirectBranch(ps) = "error" ->
              /\ message' = "Error: " \o ToStr(get(ps, "error"))
              /\ sent' = [p \in Procs |-> <<>>]
              /\ pc' = [p \in Procs |->
                          IF p = Redirector THEN "done" ELSE "idle"]
              /\ href' = redirect_uri
              /\ storage' = EmptyStorage
         [] RedirectBranch(ps) = "neither" ->
              /\ href' = home
              /\ message' = ""
              /\ sent' = [p \in Procs |-> <<>>]
              /\ pc' = [p \in Procs |->
                          IF p = Redirector THEN "done" ELSE "idle"]
              /\ storage' = storage
    /\ UNCHANGED <<nowMs, checkedAt, lastStore, lastResp>>

\* the redirect page loads with parameters ps and runs redirect() up to its
\* first suspension point or to its end
Redirect(ps) ==
    /\ Quiescent
    /\ params' = ps
    /\ resp' = [p \in Procs |-> NoOutcome]
    /\ result' = [p \in Procs |-> Undefined]
    /\ err' = [p \in Procs |-> ""]
    /\ CASE RedirectBranch(ps) = "code" ->
              /\ sent' = [p \in Procs |->
                            IF p = Redirector
                            THEN <<RequestBody("authorization_code",
                                               get(ps, "code"), storage)>>
                            ELSE <<>>]
              /\ pc' = [p \in Procs |->
                          IF p = Redirector THEN "fetch" ELSE "idle"]
              /\ href' = redirect_uri
              /\ message' = ""
         [] RedirectBranch(ps) = "error" ->
              /\ message' = "Error: " \o ToStr(get(ps, "error"))
              /\ sent' = [p \in Procs |-> <<>>]
              /\ pc' = [p \in Procs |->
                          IF p = Redirector THEN "done" ELSE "idle"]
              /\ href' = redirect_uri
         [] RedirectBranch(ps) = "neither" ->
              /\ href' = home
              /\ message' = ""
              /\ sent' = [p \in Procs |-> <<>>]
              /\ pc' = [p \in Procs |->
                          IF p = Redirector THEN "done" ELSE "idle"]
    /\ UNCHANGED <<nowMs, storage, checkedAt, lastStore, lastResp>>

\* fetchToken is not awaited: the navigation may run while the exchange is
\* still in flight
RedirectNavigateEager ==
    /\ pc[Redirector] \in {"fetch", "stored"}
    /\ href' = appURL
    /\ params' = NoParams
    /\ message' = ""
    /\ PageLoad
    /\ UNCHANGED <<nowMs, storage, lastStore, lastResp>>

\* redirect after `await OAuth.fetchToken(...)`: the navigation to the app
\* page unloads the redirect page
RedirectNavigate ==
    /\ pc[Redirector] = "stored"
    /\ href' = appURL
    /\ params' = NoParams
    /\ message' = ""
    /\ PageLoad
    /\ UNCHANGED <<nowMs, storage, lastStore, lastResp>>

\* ------------------------------------------------------------ environment

\* the user opens the app page
OpenApp ==
    /\ Quiescent
    /\ href # appURL
    /\ href' = appURL
    /\ params' = NoParams
    /\ message' = ""
    /\ PageLoad
    /\ UNCHANGED <<nowMs, storage, lastStore, lastResp>>

Tick ==
    /\ nowMs < MaxTimeMs
    /\ nowMs' = nowMs + (MsPerSec \div 2)
    /\ UNCHANGED <<storage, href, params, message, pc, sent, resp, result,
                   err, checkedAt, lastStore, lastResp>>

Init ==
    /\ nowMs = MsPerSec
    /\ storage = EmptyStorage
    /\ href = home
    /\ params = NoParams
    /\ message = ""
    /\ pc = [p \in Procs |-> "idle"]
    /\ sent = [p \in Procs |-> <<>>]
    /\ resp = [p \in Procs |-> NoOutcome]
    /\ result = [p \in Procs |-> Undefined]
    /\ err = [p \in Procs |-> ""]
    /\ checkedAt = [p \in Procs |-> 0]
    /\ lastStore = "none"
    /\ lastResp = NoOutcome

Next ==
    \/ \E c \in Callers : GetToken(c)
    \/ \E p \in Procs : \E o \in Outcomes : FetchTokenResume(p, o)
    \/ \E c \in Callers : GetTokenReturn(c)
    \/ Login
    \/ \E ps \in ParamSets : Redirect(ps)
    \/ RedirectNavigate
    \/ OpenApp
    \/ Tick

Spec == Init /\ [][Next]_vars

\* the token endpoint answers every request, and a continuation that is
\* ready to run is run by the event loop
Fairness ==
    /\ \A p \in Procs : WF_vars(\E o \in Outcomes : FetchTokenResume(p, o))
    /\ \A c \in Callers : WF_vars(GetTokenReturn(c))
    /\ WF_vars(RedirectNavigate)

LiveSpec == Init /\ [][Next]_vars /\ Fairness

\* ------------------------------------------------------------ properties

AllKeys == {"access_token", "refresh_token", "expires_at"}

\* expires_at of the stored record as a number, NaN when it is none
ExpiresAt == ToNumber(getItem(storage, "expires_at"))

\* a record is stored and now < expires_at
Unexpired ==
    /\ DOMAIN storage = AllKeys
    /\ ExpiresAt.t = "number"
    /\ FloorSec(nowMs) < ExpiresAt.n

\* a record is stored and expires_at is in the past
PastExpiry ==
    /\ DOMAIN storage = AllKeys
    /\ ExpiresAt.t = "number"
    /\ ExpiresAt.n < FloorSec(nowMs)

RefreshRequest(rt) ==
    << <<"grant_type", "refresh_token">>,
       <<"refresh_token", rt>>,
       <<"client_id", client_id>> >>

\* C1: a getToken call made while now < expires_at of the stored record
\* returns the stored access_token at once and issues no token-endpoint request
C1_RoundTrip ==
    [][\A c \in Callers :
         (GetToken(c) /\ Unexpired) =>
            /\ pc'[c] = "done"
            /\ result'[c] = Str(storage["access_token"])
            /\ sent'[c] = <<>>
            /\ storage' = storage]_vars

C1_Witness ==
    \E c \in Callers :
        /\ pc[c] = "done"
        /\ sent[c] = <<>>
        /\ Unexpired
        /\ lastStore = Redirector
        /\ result[c] = Str(storage["access_token"])
        /\ result[c].s \in {AccessTokenOf(k) : k \in Grants}

C3_RefreshFailureKeepsRecord ==
    [][\A c \in Callers :
         (pc[c] = "fetch" /\ pc'[c] # "fetch"
            /\ resp'[c].kind = "json" /\ resp'[c].status # 200) =>
            /\ storage' = storage
            /\ pc'[c] = "rejected"
            /\ err'[c] = "RefreshFailedError"]_vars

\* C4: when a granted refresh response has no refresh_token, the stored
\* refresh_token after the update is the one stored before it
C4_RefreshTokenRetained ==
    [][\A c \in Callers :
         (pc[c] = "fetch" /\ pc'[c] # "fetch" /\ IsGrant(resp'[c])
            /\ "refresh_token" \notin DOMAIN resp'[c].body) =>
            getItem(storage', "refresh_token") = getItem(storage, "refresh_token")]_vars

\* C5: with no stored record, getToken fails with NotAuthenticatedError,
\* issues no token-endpoint request and writes nothing
C5_UnauthenticatedGate ==
    [][\A c \in Callers :
         (GetToken(c) /\ storage = EmptyStorage) =>
            /\ pc'[c] = "rejected"
            /\ err'[c] = "NotAuthenticatedError"
            /\ sent'[c] = <<>>
            /\ storage' = storage]_vars

\* C6: every change of the stored record is made by one fetchToken
\* continuation, and after a granted exchange all three entries are the
\* stored form of that one response: no entry keeps the value of the record
\* before it
C6_AtomicReplacement ==
    [][storage' # storage =>
         \E p \in Procs :
            /\ pc[p] = "fetch"
            /\ pc'[p] = "stored"
            /\ lastStore' = p
            /\ resp'[p].kind = "json"
            /\ IsGrant(resp'[p]) =>
                 /\ DOMAIN storage' = AllKeys
                 /\ storage'["access_token"] = resp'[p].body["access_token"].s
                 /\ storage'["refresh_token"] =
                       IF "refresh_token" \in DOMAIN resp'[p].body
                       THEN resp'[p].body["refresh_token"].s
                       ELSE "undefined"
                 /\ storage'["expires_at"] =
                       NumberToString(FloorSec(nowMs)
                                        + resp'[p].body["expires_in"].n)]_vars

C6_Witness ==
    \E p \in Callers :
        /\ pc[p] = "stored"
        /\ lastStore = p
        /\ IsGrant(resp[p])
        /\ resp[p].body = TokenBody(AllFields, 2, 2)
        /\ storage = [k \in AllKeys |->
                        CASE k = "access_token"  -> "at2"
                          [] k = "refresh_token" -> "rt2"
                          [] k = "expires_at"    -> "4"]

\* C7: with a code parameter c and no error parameter, redirect issues exactly
\* one token-endpoint request: grant_type=authorization_code, code=c and the
\* fixed redirect target
C7_RedirectCode ==
    \A c \in Codes :
        (pc[Redirector] # "idle" /\ has(params, "code") /\ params["code"] = c
            /\ ~has(params, "error")) =>
            sent[Redirector] = << << <<"grant_type", "authorization_code">>,
                                     <<"code", c>>,
                                     <<"redirect_uri", redirect_uri>> >> >>

C7_Witness ==
    /\ pc[Redirector] = "stored"
    /\ IsGrant(resp[Redirector])
    /\ href = redirect_uri
    /\ has(params, "code") /\ ~has(params, "error")
    /\ params["code"] = "abc123"
    /\ Len(sent[Redirector]) = 1

\* C8: with an error parameter e and no code parameter, redirect issues no
\* token-endpoint request, shows e in the message, is not rejected and stays
\* on the redirect page
C8_RedirectError ==
    \A e \in Errors :
        (pc[Redirector] # "idle" /\ has(params, "error")
            /\ params["error"] = e /\ ~has(params, "code")) =>
            /\ pc[Redirector] = "done"
            /\ sent[Redirector] = <<>>
            /\ message = "Error: " \o e
            /\ err[Redirector] = ""
            /\ href = redirect_uri

C8_Witness ==
    /\ pc[Redirector] = "done"
    /\ has(params, "error") /\ ~has(params, "code")
    /\ message = "Error: access_denied"

C10_TokenExchangeError ==
    (resp[Redirector].kind = "json" /\ ~IsGrant(resp[Redirector])) =>
        /\ pc[Redirector] = "rejected"
        /\ err[Redirector] = "TokenExchangeError"

\* the access tokens and refresh tokens the token endpoint issues
EndpointAccessTokens  == { AccessTokenOf(k) : k \in Grants }
EndpointRefreshTokens == { RefreshTokenOf(k) : k \in Grants }

\* C11: in every reachable state the stored record is either entirely absent
\* or has all three entries, each holding a provider-derived value
C11_RecordInvariant ==
    \/ storage = EmptyStorage
    \/ /\ DOMAIN storage = AllKeys
       /\ storage["access_token"] \in EndpointAccessTokens
       /\ storage["refresh_token"] \in EndpointRefreshTokens
       /\ ExpiresAt.t = "number"

\* C12: every value getToken returns is an access token issued by the token
\* endpoint
C12_OnlyIssuedTokens ==
    \A c \in Callers :
        pc[c] = "done" =>
            /\ result[c].t = "string"
            /\ result[c].s \in EndpointAccessTokens

\* C13: whenever getToken returns, the stored expires_at is a number strictly
\* greater than the second at which the call made its expiry check
C13_Freshness ==
    [][\A c \in Callers :
         /\ (GetToken(c) /\ pc'[c] = "done") =>
               (ExpiresAt.t = "number" /\ ExpiresAt.n > FloorSec(nowMs))
         /\ GetTokenReturn(c) =>
               (ExpiresAt.t = "number" /\ ExpiresAt.n > checkedAt[c])]_vars

\* C14: the gate refreshes when now >= expires_at: a record whose expires_at
\* equals the current second is refreshed before any token is returned, and a
\* record with expires_at = now + 1 is returned without a refresh
C14_ExpiryBoundary ==
    [][\A c \in Callers :
         (GetToken(c) /\ DOMAIN storage = AllKeys /\ ExpiresAt.t = "number") =>
            /\ (FloorSec(nowMs) >= ExpiresAt.n) =>
                  /\ pc'[c] = "fetch"
                  /\ sent'[c] = <<RefreshRequest(storage["refresh_token"])>>
                  /\ result'[c] = Undefined
            /\ (ExpiresAt.n = FloorSec(nowMs) + 1) =>
                  /\ pc'[c] = "done"
                  /\ sent'[c] = <<>>
                  /\ result'[c] = Str(storage["access_token"])]_vars

C14_Witness ==
    \E c, d \in Callers :
        /\ pc[c] = "fetch"
        /\ ExpiresAt.t = "number"
        /\ checkedAt[c] = ExpiresAt.n
        /\ FloorSec(nowMs) = ExpiresAt.n
        /\ pc[d] = "done"
        /\ sent[d] = <<>>
        /\ result[d] = Str(storage["access_token"])

\* C15: after every granted exchange the stored expires_at reads back as the
\* whole second at which the response was processed plus the expires_in of
\* that same response
C15_ExpiresAtDerivation ==
    [][\A p \in Procs :
         (pc[p] = "fetch" /\ pc'[p] = "stored" /\ IsGrant(resp'[p])) =>
            ToNumber(getItem(storage', "expires_at")) =
               Num(FloorSec(nowMs) + resp'[p].body["expires_in"].n)]_vars

C15_Witness ==
    /\ pc[Redirector] = "stored"
    /\ lastStore = Redirector
    /\ IsGrant(resp[Redirector])
    /\ resp[Redirector].body["expires_in"] = Num(2)
    /\ nowMs = 2 * MsPerSec + (MsPerSec \div 2)
    /\ storage["expires_at"] = "4"

\* C16: when the token-endpoint request fails at the network level or its body
\* cannot be parsed, the invocation is rejected with that failure: it returns
\* no token, and redirect does not reach the app page
C16_FailuresPropagate ==
    \A p \in Procs :
        resp[p].kind \in {"network", "unparsable"} =>
            /\ pc[p] = "rejected"
            /\ err[p] = (IF resp[p].kind = "network"
                         THEN "TypeError" ELSE "SyntaxError")
            /\ result[p] = Undefined
            /\ (p = Redirector => href = redirect_uri)

C16_Witness ==
    /\ \E c \in Callers :
          /\ pc[c] = "rejected"
          /\ resp[c].kind = "unparsable"
          /\ err[c] = "SyntaxError"
    /\ \E c \in Callers :
          /\ pc[c] = "rejected"
          /\ resp[c].kind = "network"
          /\ err[c] = "TypeError"

AtOrPastExpiry ==
    /\ DOMAIN storage = AllKeys
    /\ ExpiresAt.t = "number"
    /\ FloorSec(nowMs) >= ExpiresAt.n

\* C18: a getToken call that starts while the token is expired and another
\* call's refresh is awaiting its answer issues a refresh request of its own,
\* so both are in flight, and each answered request makes its own write
C18_NoInFlightGuard ==
    [][\A c \in Callers :
         /\ (GetToken(c) /\ AtOrPastExpiry
               /\ \E d \in Callers \ {c} : pc[d] = "fetch") =>
               /\ pc'[c] = "fetch"
               /\ sent'[c] = <<RefreshRequest(storage["refresh_token"])>>
               /\ \E d \in Callers \ {c} : pc'[d] = "fetch"
         /\ (pc[c] = "fetch" /\ pc'[c] # "fetch" /\ resp'[c].kind = "json") =>
               /\ lastStore' = c
               /\ lastResp' = resp'[c]
               /\ DOMAIN storage' = AllKeys]_vars

C18_Witness ==
    /\ AtOrPastExpiry
    /\ \A c \in Callers :
          /\ pc[c] = "fetch"
          /\ sent[c] = <<RefreshRequest(storage["refresh_token"])>>

\* the stored record is the stored form of answer o
RecordOf(st, o) ==
    /\ DOMAIN st = AllKeys
    /\ st["access_token"] = o.body["access_token"].s
    /\ st["refresh_token"] = ToStr(Prop(o.body, "refresh_token"))
    /\ \E sec \in 0..FloorSec(nowMs) :
          st["expires_at"] = NumberToString(sec + o.body["expires_in"].n)

\* C19: the stored record is always the triple of the granted response that
\* was processed last, whichever request was sent first, and every getToken
\* that returns after it returns that response's access_token
C19_LaterWriteWins ==
    [][/\ IsGrant(lastResp') => RecordOf(storage', lastResp')
       /\ \A c \in Callers :
            ((GetToken(c) \/ GetTokenReturn(c)) /\ pc'[c] = "done"
               /\ IsGrant(lastResp)) =>
               result'[c] = lastResp.body["access_token"]]_vars

C19_Witness ==
    \E c, d \in Callers :
        /\ c # d
        /\ sent[c] = <<RefreshRequest("rt1")>>
        /\ sent[d] = <<RefreshRequest("rt1")>>
        /\ resp[c].body = TokenBody(AllFields, 2, 1)
        /\ resp[d].body = TokenBody(AllFields, 1, 2)
        /\ lastStore = d
        /\ pc[c] = "done"
        /\ pc[d] \in {"stored", "done"}
        /\ result[c] = Str("at1")
        /\ RecordOf(storage, resp[d])

\* C20: a request with grant_type=refresh_token is issued only by a getToken
\* call of a consumer, at the moment its check finds now >= expires_at (an
\* absent entry reads as 0); login, redirect, page loads and the passing of
\* time issue none
C20_LazyRefresh ==
    [][\A p \in Procs :
         (pc[p] # "fetch" /\ pc'[p] = "fetch"
            /\ sent'[p][Len(sent'[p])][1] = <<"grant_type", "refresh_token">>) =>
            /\ p \in Callers
            /\ GetToken(p)
            /\ ExpiresAt.t = "number"
            /\ FloorSec(nowMs) >= ExpiresAt.n]_vars

C20_Witness ==
    \E c \in Callers :
        /\ pc[c] = "fetch"
        /\ sent[c] = <<RefreshRequest("rt2")>>
        /\ AtOrPastExpiry
        /\ checkedAt[c] = FloorSec(nowMs)

\* the exchange was answered with a non-success status, or not at all, or
\* with a body that is not JSON
ExchangeFailed(o) ==
    \/ o.kind \in {"network", "unparsable"}
    \/ o.kind = "json" /\ o.status # 200

\* C21: a getToken call whose refresh exchange fails has issued exactly one
\* token-endpoint request and is then rejected with the failure; a further
\* request is issued only by a new call
C21_NoRetry ==
    [][\A c \in Callers :
         /\ Len(sent'[c]) <= 1
         /\ (pc[c] = "fetch" /\ pc'[c] # "fetch" /\ ExchangeFailed(resp'[c])) =>
               /\ pc'[c] = "rejected"
               /\ err'[c] # ""
               /\ result'[c] = Undefined
               /\ sent'[c] = sent[c]
               /\ Len(sent'[c]) = 1
         /\ (pc[c] # "fetch" /\ pc'[c] = "fetch") => GetToken(c)]_vars

\* the three entries hold the stored form of the body of answer o
WrittenFrom(st, o) ==
    /\ DOMAIN st = AllKeys
    /\ st["access_token"] = ToStr(Prop(o.body, "access_token"))
    /\ st["refresh_token"] = ToStr(Prop(o.body, "refresh_token"))
    /\ \E sec \in 0..FloorSec(nowMs) :
          st["expires_at"] = ToStr(Plus(Num(sec), Prop(o.body, "expires_in")))

\* C22: in the code branch redirect navigates to the app page only after the
\* token endpoint has answered and the three entries have been written from
\* that answer; while the exchange is in flight the tab stays on the redirect
\* page and the record is not touched
C22_StoreThenNavigate ==
    [][/\ RedirectNavigate =>
            /\ pc[Redirector] = "stored"
            /\ resp[Redirector].kind = "json"
            /\ lastStore = Redirector
            /\ lastResp = resp[Redirector]
            /\ WrittenFrom(storage, resp[Redirector])
            /\ storage' = storage
            /\ href = redirect_uri
            /\ href' = appURL
       /\ pc[Redirector] = "fetch" =>
            /\ href # appURL
            /\ resp[Redirector] = NoOutcome
            /\ (href' = appURL => pc'[Redirector] # "fetch")
            /\ (storage' # storage => pc'[Redirector] = "stored")]_vars

C22_Witness ==
    /\ href = appURL
    /\ lastStore = Redirector
    /\ IsGrant(lastResp)
    /\ lastResp.body = TokenBody(AllFields, 2, 2)
    /\ WrittenFrom(storage, lastResp)
    /\ \A p \in Procs : pc[p] = "idle"

\* C23: a getToken call that started a refresh has no return value while that
\* refresh is in flight; it returns only after the answer has been processed
\* and written, and returns nothing when the answer was a failure
C23_ReturnAfterRefresh ==
    \A c \in Callers :
        sent[c] # <<>> =>
            \/ /\ pc[c] = "fetch"
               /\ resp[c] = NoOutcome
               /\ result[c] = Undefined
            \/ /\ pc[c] = "stored"
               /\ resp[c].kind = "json"
               /\ result[c] = Undefined
            \/ /\ pc[c] = "done"
               /\ resp[c].kind = "json"
               /\ result[c] # Undefined
            \/ /\ pc[c] = "rejected"
               /\ resp[c].kind \in {"network", "unparsable"}
               /\ result[c] = Undefined

C23_Witness ==
    \E c, d \in Callers :
        /\ pc[c] = "fetch"
        /\ sent[c] = <<RefreshRequest("rt1")>>
        /\ result[c] = Undefined
        /\ pc[d] = "done"
        /\ sent[d] = <<RefreshRequest("rt1")>>
        /\ IsGrant(resp[d])
        /\ result[d] = resp[d].body["access_token"]

\* C24: redirect navigates to the app page only out of its code exchange and
\* only when that exchange was granted and the stored record holds the
\* issued tokens and a numeric expiry; an exchange that failed never ends on
\* the app page; after the navigation or after the error message the
\* handler issues no request and writes nothing
C24_RedirectStateMachine ==
    [][/\ RedirectNavigate =>
            /\ pc[Redirector] = "stored"
            /\ Len(sent[Redirector]) = 1
            /\ sent[Redirector][1][1] = <<"grant_type", "authorization_code">>
            /\ IsGrant(resp[Redirector])
            /\ "refresh_token" \in DOMAIN resp[Redirector].body
            /\ WrittenFrom(storage, resp[Redirector])
       /\ (pc[Redirector] = "fetch" /\ pc'[Redirector] # "fetch"
             /\ ~IsGrant(resp'[Redirector])) =>
            /\ pc'[Redirector] = "rejected"
            /\ href' = redirect_uri
       /\ (pc[Redirector] = "done" /\ pc'[Redirector] = "done") =>
            /\ sent'[Redirector] = sent[Redirector]
            /\ storage' = storage]_vars

\* C25: while the answer written last is a refresh answer with a non-success
\* status, every getToken call attempts a refresh exchange again and none
\* returns a token without one
C25_StaleAfterFailedRefresh ==
    [][\A c \in Callers :
         (GetToken(c) /\ lastStore \in Callers
            /\ lastResp.kind = "json" /\ lastResp.status # 200) =>
            /\ pc'[c] = "fetch"
            /\ Len(sent'[c]) = 1
            /\ sent'[c][1][1] = <<"grant_type", "refresh_token">>
            /\ result'[c] = Undefined]_vars

\* C26: every refresh request carries a refresh_token that the token endpoint
\* issued, and when the answer written last issued one, that one; never the
\* text of a missing field or of an absent entry
C26_RefreshTokenIssued ==
    [][\A c \in Callers :
         (GetToken(c) /\ pc'[c] = "fetch") =>
            /\ sent'[c][1][2][1] = "refresh_token"
            /\ sent'[c][1][2][2] \in EndpointRefreshTokens
            /\ (IsGrant(lastResp) /\ "refresh_token" \in DOMAIN lastResp.body) =>
                  sent'[c][1][2][2] = lastResp.body["refresh_token"].s]_vars

\* the request of the code exchange for code c
CodeRequest(c) ==
    << <<"grant_type", "authorization_code">>,
       <<"code", c>>,
       <<"redirect_uri", redirect_uri>> >>

C28_Frame ==
    [][( \/ \E ps \in ParamSets :
               Redirect(ps) /\ RedirectBranch(ps) \in {"error", "neither"}
         \/ Login
         \/ \E c \in Callers : GetToken(c) /\ Unexpired ) =>
            \A k \in AllKeys : getItem(storage', k) = getItem(storage, k)]_vars

C28_Witness ==
    /\ pc[Redirector] = "done"
    /\ has(params, "error") /\ ~has(params, "code")
    /\ message = "Error: access_denied"
    /\ IsGrant(lastResp)
    /\ WrittenFrom(storage, lastResp)
    /\ storage["refresh_token"] = "rt2"

\* C29: when a token-endpoint request gets no answer, the step that learns of
\* it changes no stored entry and no write of the invocation precedes it, so
\* the record is the one from before the call unless another call wrote it;
\* redirect then stays on the redirect page and does not navigate
C29_NetworkFailure ==
    [][\A p \in Procs :
         /\ (pc[p] = "fetch" /\ pc'[p] # "fetch" /\ resp'[p].kind = "network") =>
               /\ storage' = storage
               /\ lastStore' = lastStore
               /\ pc'[p] = "rejected"
               /\ href' = href
         /\ (pc[p] = "fetch" /\ pc'[p] # "stored" /\ storage' # storage) =>
               /\ p \in Callers
               /\ lastStore' \in Callers \ {p}
         /\ (pc[Redirector] = "rejected"
               /\ resp[Redirector].kind = "network") =>
               /\ href = redirect_uri
               /\ ~RedirectNavigate]_vars

C29_Witness ==
    /\ pc[Redirector] = "rejected"
    /\ resp[Redirector].kind = "network"
    /\ href = redirect_uri
    /\ lastStore = Redirector
    /\ IsGrant(lastResp)
    /\ WrittenFrom(storage, lastResp)

\* an invocation is between its request and the end of its call
InFlight(p) == pc[p] \in {"fetch", "stored"}

\* C30: when the token endpoint answers every request, every getToken call
\* and every redirect invocation that issued a request finishes, by returning,
\* navigating or being rejected, and no invocation issues more than one
\* request
C30_Termination ==
    /\ [](\A p \in Procs : Len(sent[p]) <= 1)
    /\ \A p \in Procs : InFlight(p) ~> ~InFlight(p)

C30_Witness ==
    \E c, d \in Callers :
        /\ pc[c] = "done"
        /\ IsGrant(resp[c])
        /\ Len(sent[c]) = 1
        /\ result[c] = Str(storage["access_token"])
        /\ pc[d] = "rejected"
        /\ resp[d].kind = "network"
        /\ Len(sent[d]) = 1

====
